---- MODULE Spec2Model ----
(***************************************************************************)
(* Model of the btc-usd-price-prediction frontend: the three React client  *)
(* components BrowserForecast, ForecastButton and PriceTicker.             *)
(*                                                                         *)
(* Each component is a state machine over its useState cells.  An async    *)
(* handler is cut at its awaits: the synchronous part up to the first      *)
(* await is one action, and every continuation after an await is one       *)
(* action.  The committed view (what the DOM shows, in particular the      *)
(* button's disabled attribute) is a separate variable: updates queued in  *)
(* a click handler are committed before the next input event is            *)
(* dispatched, updates queued in a continuation are committed by a later   *)
(* render step.                                                            *)
(***************************************************************************)
EXTENDS Integers, Sequences, FiniteSets, TLC

\* ------------------------------------------------------------------ bounds
MaxClicks == 2
MaxAttempts == 3
MaxExtra == 0
MaxBad == 1
MaxMounts == 2
MaxPolls == 3
MaxDays == 4
MaxPaths == 2

\* ------------------------------------------------------- program constants
MinPrices == 60
TARGET == 99000

\* ------------------------------------------------------------ option type
\* T | null is a sequence of length 0 (null) or 1.
Null == << >>
Some(x) == << x >>

\* ------------------------------------------------------------------- HTTP
Statuses == {200, 500}

\* Response.ok: the status is in the range 200..299.
ResOk(status) == status >= 200 /\ status <= 299

\* `HTTP ${res.status}`
HttpMessage(status) == "HTTP " \o ToString(status)

\* Messages a rejected fetch() can carry; the empty one stands for a thrown
\* value without a usable message.
RejectMessages == {"Failed to fetch", ""}

JsonSyntaxMessage == "Unexpected token < in JSON at position 0"
NoPricesMessage == "Cannot read properties of undefined (reading 'map')"
NotEnoughMessage == "Not enough data from API"

\* ------------------------------------------------------------------ state
\* BrowserForecast: the useState cells, the committed view, the runs of
\* onClick started so far, the fetch() calls made, the clicks attempted.
VARIABLES bfLoading, bfError, bfResult, bfView, bfRuns, bfRequests, bfAttempts

\* ForecastButton: the useState cells, the committed view, the runs of
\* getForecast started so far, the clicks attempted.
VARIABLES fbLoading, fbData, fbErr, fbView, fbRuns, fbAttempts

\* PriceTicker: the useState cells, whether the component is mounted and
\* which instance it is, the live interval timers, the calls of fetchPrice
\* made so far, the timer firings so far.
VARIABLES tkPrice, tkUpdated, tkError, tkMounted, tkInst, tkTimers, tkPolls, tkTicks

\* The helper functions of BrowserForecast, run on their own: the arguments
\* of the call, the locals and the return value, and the position in the call.
VARIABLES fnIn, fnOut, fnPc

bfVars == << bfLoading, bfError, bfResult, bfView, bfRuns, bfRequests, bfAttempts >>
fbVars == << fbLoading, fbData, fbErr, fbView, fbRuns, fbAttempts >>
tkVars == << tkPrice, tkUpdated, tkError, tkMounted, tkInst, tkTimers, tkPolls, tkTicks >>
fnVars == << fnIn, fnOut, fnPc >>
vars == << bfVars, fbVars, tkVars, fnVars >>

\* ============================================================ BrowserForecast

\* e?.message || "Failed to compute forecast"
BFCatchMessage_nofallback(msg) == msg
BFCatchMessage(msg) == IF msg # "" THEN msg ELSE "Failed to compute forecast"

\* <button ... disabled={loading}>
BFButtonDisabled_never(loading) == FALSE
BFButtonDisabled(loading) == loading

\* What a render of the component commits to the DOM.
BFViewOf(loading, error, result) ==
    [ disabled |-> BFButtonDisabled(loading), error |-> error, result |-> result ]

\* Number.isFinite(x) on an entry p[1] of json.prices.
NumberIsFinite(x) == x.fin

\* json.prices of a response: n finite prices and k entries whose p[1] is not
\* a finite number (null), placed in front of or behind the finite ones.
MkPrices(n, k, atEnd) ==
    [ i \in 1..(n + k) |->
        IF atEnd
        THEN IF i <= n THEN [ fin |-> TRUE, v |-> 100 + i ]
                       ELSE [ fin |-> FALSE, v |-> 0 ]
        ELSE IF i <= k THEN [ fin |-> FALSE, v |-> 0 ]
                       ELSE [ fin |-> TRUE, v |-> 100 + (i - k) ] ]

UsableCounts == {0} \cup ((MinPrices - 2)..(MinPrices + MaxExtra))

BFBodies ==
    { [ kind |-> "badjson", prices |-> << >> ],
      [ kind |-> "noprices", prices |-> << >> ] }
    \cup { [ kind |-> "prices", prices |-> MkPrices(n, k, e) ] :
             n \in UsableCounts, k \in 0..MaxBad, e \in BOOLEAN }

\* json.prices.map((p) => p[1]).filter((x) => Number.isFinite(x))
UsablePrices_nofilter(raw) == raw
UsablePrices(raw) == SelectSeq(raw, NumberIsFinite)

\* prices.length < 60
TooFew(prices) == Len(prices) < MinPrices

\* estimateParams: lastPrice = prices[prices.length - 1]
LastPrice(prices) == prices[Len(prices)].v

\* The record handed to setResult, reduced to what identifies it.
BFCompute(run, prices) ==
    [ run |-> run, lastPrice |-> LastPrice(prices), n |-> Len(prices) ]

BFInFlight == { i \in DOMAIN bfRuns : bfRuns[i].pc # "done" }
BFClicks == Len(bfRuns)

BFInit ==
    /\ bfLoading = FALSE
    /\ bfError = Null
    /\ bfResult = Null
    /\ bfView = BFViewOf(FALSE, Null, Null)
    /\ bfRuns = << >>
    /\ bfRequests = 0
    /\ bfAttempts = 0

\* A response of which no body was read.
NoBody == [ kind |-> "none", prices |-> << >> ]

NewRun(pre) ==
    [ pc |-> "fetch", pre |-> pre, outcome |-> "none", cause |-> "none",
      status |-> 0, kind |-> "none", raw |-> << >>, computed |-> FALSE ]

\* The start of onClick, up to the await of fetch(): setLoading(true),
\* setError(null), setResult(null), fetch(...).
BFStart_keepresult ==
    /\ bfLoading' = TRUE
    /\ bfError' = Null
    /\ bfResult' = bfResult
    /\ bfRequests' = bfRequests + 1
    /\ bfRuns' = Append(bfRuns, NewRun(bfResult))
    /\ bfView' = BFViewOf(TRUE, Null, bfResult)

BFStart_keeperror ==
    /\ bfLoading' = TRUE
    /\ bfError' = bfError
    /\ bfResult' = Null
    /\ bfRequests' = bfRequests + 1
    /\ bfRuns' = Append(bfRuns, NewRun(bfResult))
    /\ bfView' = BFViewOf(TRUE, bfError, Null)

BFStart ==
    /\ bfLoading' = TRUE
    /\ bfError' = Null
    /\ bfResult' = Null
    /\ bfRequests' = bfRequests + 1
    /\ bfRuns' = Append(bfRuns, NewRun(bfResult))
    /\ bfView' = BFViewOf(TRUE, Null, Null)

\* A click on the button.  A disabled button dispatches no click event.
BFClickStep ==
    /\ bfAttempts < MaxAttempts
    /\ bfAttempts' = bfAttempts + 1
    /\ IF bfView.disabled \/ BFClicks >= MaxClicks
       THEN UNCHANGED << bfLoading, bfError, bfResult, bfView, bfRuns, bfRequests >>
       ELSE BFStart

\* catch (e) { setError(...) } finally { setLoading(false) }
BFFail_retry(i, msg, cause, status, body) ==
    /\ bfError' = Some(BFCatchMessage(msg))
    /\ bfLoading' = FALSE
    /\ bfRuns' = [ bfRuns EXCEPT ![i] =
                     [ @ EXCEPT !.pc = "done", !.outcome = "fail", !.cause = cause,
                                !.status = status, !.kind = body.kind,
                                !.raw = body.prices ] ]
    /\ bfRequests' = bfRequests + 1
    /\ UNCHANGED << bfResult, bfView, bfAttempts >>

BFFail_restore(i, msg, cause, status, body) ==
    /\ bfError' = Some(BFCatchMessage(msg))
    /\ bfLoading' = FALSE
    /\ bfResult' = bfRuns[i].pre
    /\ bfRuns' = [ bfRuns EXCEPT ![i] =
                     [ @ EXCEPT !.pc = "done", !.outcome = "fail", !.cause = cause,
                                !.status = status, !.kind = body.kind,
                                !.raw = body.prices ] ]
    /\ UNCHANGED << bfView, bfRequests, bfAttempts >>

BFFail_stillloading(i, msg, cause, status, body) ==
    /\ bfError' = Some(BFCatchMessage(msg))
    /\ bfRuns' = [ bfRuns EXCEPT ![i] =
                     [ @ EXCEPT !.pc = "done", !.outcome = "fail", !.cause = cause,
                                !.status = status, !.kind = body.kind,
                                !.raw = body.prices ] ]
    /\ UNCHANGED << bfLoading, bfResult, bfView, bfRequests, bfAttempts >>

BFFail(i, msg, cause, status, body) ==
    /\ bfError' = Some(BFCatchMessage(msg))
    /\ bfLoading' = FALSE
    /\ bfRuns' = [ bfRuns EXCEPT ![i] =
                     [ @ EXCEPT !.pc = "done", !.outcome = "fail", !.cause = cause,
                                !.status = status, !.kind = body.kind,
                                !.raw = body.prices ] ]
    /\ UNCHANGED << bfResult, bfView, bfRequests, bfAttempts >>

\* The continuation after `await fetch(...)`.
BFFetchSettleStep(i) ==
    /\ bfRuns[i].pc = "fetch"
    /\ \/ \E msg \in RejectMessages : BFFail(i, msg, "reject", 0, NoBody)
       \/ \E s \in Statuses :
            IF ~ResOk(s)
            THEN BFFail(i, HttpMessage(s), "http", s, NoBody)
            ELSE /\ bfRuns' = [ bfRuns EXCEPT ![i] = [ @ EXCEPT !.pc = "json", !.status = s ] ]
                 /\ UNCHANGED << bfLoading, bfError, bfResult, bfView, bfRequests, bfAttempts >>

\* The continuation after `await res.json()`, to the end of onClick.
BFJsonSettleStep(i) ==
    /\ bfRuns[i].pc = "json"
    /\ \E body \in BFBodies :
         LET st == bfRuns[i].status
             prices == UsablePrices(body.prices)
         IN  CASE body.kind = "badjson" -> BFFail(i, JsonSyntaxMessage, "badjson", st, body)
               [] body.kind = "noprices" -> BFFail(i, NoPricesMessage, "noprices", st, body)
               [] OTHER ->
                    IF TooFew(prices)
                    THEN BFFail(i, NotEnoughMessage, "toofew", st, body)
                    ELSE /\ bfResult' = Some(BFCompute(i, prices))
                         /\ bfLoading' = FALSE
                         /\ bfRuns' = [ bfRuns EXCEPT ![i] =
                                          [ @ EXCEPT !.pc = "done", !.outcome = "ok",
                                                     !.kind = body.kind,
                                                     !.raw = body.prices,
                                                     !.computed = TRUE ] ]
                         /\ UNCHANGED << bfError, bfView, bfRequests, bfAttempts >>

\* React commits the state set by a continuation.
BFRenderStep ==
    /\ bfView # BFViewOf(bfLoading, bfError, bfResult)
    /\ bfView' = BFViewOf(bfLoading, bfError, bfResult)
    /\ UNCHANGED << bfLoading, bfError, bfResult, bfRuns, bfRequests, bfAttempts >>

BFClick == BFClickStep /\ UNCHANGED << fbVars, tkVars, fnVars >>
BFFetchSettle == (\E i \in DOMAIN bfRuns : BFFetchSettleStep(i)) /\ UNCHANGED << fbVars, tkVars, fnVars >>
BFJsonSettle == (\E i \in DOMAIN bfRuns : BFJsonSettleStep(i)) /\ UNCHANGED << fbVars, tkVars, fnVars >>
BFRender == BFRenderStep /\ UNCHANGED << fbVars, tkVars, fnVars >>

\* ============================================================= ForecastButton
\* e?.message || "Request failed"
FBCatchMessage(msg) == IF msg # "" THEN msg ELSE "Request failed"

\* json.error || "Failed", the message of the Error thrown on !json.ok
FBThrowMessage_fixed(error) == "Failed"
FBThrowMessage(error) == IF error # Null /\ error[1] # "" THEN error[1] ELSE "Failed"

\* !json.ok: the field is false or missing.
FBNotOk(ok) == ok # Some(TRUE)

\* <button ... disabled={loading}>
FBButtonDisabled(loading) == loading

FBViewOf(loading, err, data) ==
    [ disabled |-> FBButtonDisabled(loading), err |-> err, data |-> data ]

\* Bodies of the backend's response: not JSON, or a JSON object with an
\* optional ok field and an optional error text.
FBErrorTexts == { Null, Some(""), Some("pipeline crashed") }

FBBodies ==
    { [ kind |-> "badjson", ok |-> Null, error |-> Null ] }
    \cup { [ kind |-> "json", ok |-> o, error |-> e ] :
             o \in { Null, Some(FALSE), Some(TRUE) }, e \in FBErrorTexts }

FBNoBody == [ kind |-> "none", ok |-> Null, error |-> Null ]

FBInFlight == { i \in DOMAIN fbRuns : fbRuns[i].pc # "done" }
FBClicks == Len(fbRuns)

FBInit ==
    /\ fbLoading = FALSE
    /\ fbData = Null
    /\ fbErr = Null
    /\ fbView = FBViewOf(FALSE, Null, Null)
    /\ fbRuns = << >>
    /\ fbAttempts = 0

\* The start of getForecast, up to the await of fetch(): setLoading(true),
\* setErr(null), setData(null), fetch(...).
FBStart ==
    /\ fbLoading' = TRUE
    /\ fbErr' = Null
    /\ fbData' = Null
    /\ fbRuns' = Append(fbRuns, [ pc |-> "fetch", outcome |-> "none", cause |-> "none",
                                  status |-> 0, body |-> FBNoBody, reject |-> "" ])
    /\ fbView' = FBViewOf(TRUE, Null, Null)

\* A click on the button.  A disabled button dispatches no click event.
FBClickStep ==
    /\ fbAttempts < MaxAttempts
    /\ fbAttempts' = fbAttempts + 1
    /\ IF fbView.disabled \/ FBClicks >= MaxClicks
       THEN UNCHANGED << fbLoading, fbData, fbErr, fbView, fbRuns >>
       ELSE FBStart

\* catch (e) { setErr(...) } finally { setLoading(false) }
FBFail(i, msg, cause, body) ==
    /\ fbErr' = Some(FBCatchMessage(msg))
    /\ fbLoading' = FALSE
    /\ fbRuns' = [ fbRuns EXCEPT ![i] =
                     [ @ EXCEPT !.pc = "done", !.outcome = "fail", !.cause = cause,
                                !.body = body,
                                !.reject = IF cause = "reject" THEN msg ELSE "" ] ]
    /\ UNCHANGED << fbData, fbView, fbAttempts >>

\* The continuation after `await fetch(...)`: res.json() is called whatever
\* the status of the response is.
FBFetchSettleStep(i) ==
    /\ fbRuns[i].pc = "fetch"
    /\ \/ \E msg \in RejectMessages : FBFail(i, msg, "reject", FBNoBody)
       \/ \E s \in Statuses :
            /\ fbRuns' = [ fbRuns EXCEPT ![i] = [ @ EXCEPT !.pc = "json", !.status = s ] ]
            /\ UNCHANGED << fbLoading, fbData, fbErr, fbView, fbAttempts >>

\* The continuation after `await res.json()`, to the end of getForecast.
FBJsonSettleStep(i) ==
    /\ fbRuns[i].pc = "json"
    /\ \E body \in FBBodies :
         CASE body.kind = "badjson" -> FBFail(i, JsonSyntaxMessage, "badjson", body)
           [] OTHER ->
                IF FBNotOk(body.ok)
                THEN FBFail(i, FBThrowMessage(body.error), "notok", body)
                ELSE /\ fbData' = Some([ run |-> i, status |-> fbRuns[i].status,
                                         ok |-> body.ok, error |-> body.error ])
                     /\ fbLoading' = FALSE
                     /\ fbRuns' = [ fbRuns EXCEPT ![i] =
                                      [ @ EXCEPT !.pc = "done", !.outcome = "ok",
                                                 !.body = body ] ]
                     /\ UNCHANGED << fbErr, fbView, fbAttempts >>

\* React commits the state set by a continuation.
FBRenderStep ==
    /\ fbView # FBViewOf(fbLoading, fbErr, fbData)
    /\ fbView' = FBViewOf(fbLoading, fbErr, fbData)
    /\ UNCHANGED << fbLoading, fbData, fbErr, fbRuns, fbAttempts >>

FBClick == FBClickStep /\ UNCHANGED << bfVars, tkVars, fnVars >>
FBFetchSettle == (\E i \in DOMAIN fbRuns : FBFetchSettleStep(i)) /\ UNCHANGED << bfVars, tkVars, fnVars >>
FBJsonSettle == (\E i \in DOMAIN fbRuns : FBJsonSettleStep(i)) /\ UNCHANGED << bfVars, tkVars, fnVars >>
FBRender == FBRenderStep /\ UNCHANGED << bfVars, tkVars, fnVars >>

\* ================================================================ PriceTicker
\* e?.message || "Failed to load price"
TKCatchMessage(msg) == IF msg # "" THEN msg ELSE "Failed to load price"

\* Bodies of the price endpoint's response: not JSON, or a JSON object in
\* which bitcoin.usd is a number or is missing.
TickerPrices == { 95000, 96000 }

TKBodies ==
    { [ kind |-> "badjson", usd |-> Null ], [ kind |-> "json", usd |-> Null ] }
    \cup { [ kind |-> "json", usd |-> Some(p) ] : p \in TickerPrices }

\* json.bitcoin?.usd ?? null
TKValue(body) == body.usd

TKInit ==
    /\ tkPrice = Null
    /\ tkUpdated = Null
    /\ tkError = Null
    /\ tkMounted = FALSE
    /\ tkInst = 0
    /\ tkTimers = {}
    /\ tkPolls = << >>
    /\ tkTicks = 0

\* A state update of a poll reaches the component only if the instance that
\* started the poll is still the mounted one.
TKLive(inst) == tkMounted /\ inst = tkInst

\* The start of fetchPrice by instance inst, up to the await of fetch():
\* setError(null), fetch(...).
TKStartPoll(inst, mounted, cur, error) ==
    /\ tkError' = IF mounted /\ inst = cur THEN Null ELSE error
    /\ tkPolls' = Append(tkPolls, [ inst |-> inst, pc |-> "fetch", outcome |-> "none",
                                    live |-> mounted /\ inst = cur,
                                    status |-> 0, applied |-> FALSE, usd |-> Null ])

\* The effect of the first render: fetchPrice(), setInterval(fetchPrice, 30_000).
\* A new instance starts from the initial useState values.
TKMountStep ==
    /\ ~tkMounted
    /\ tkInst < MaxMounts
    /\ Len(tkPolls) < MaxPolls
    /\ tkMounted' = TRUE
    /\ tkInst' = tkInst + 1
    /\ tkPrice' = Null
    /\ tkUpdated' = Null
    /\ TKStartPoll(tkInst + 1, TRUE, tkInst + 1, Null)
    /\ tkTimers' = tkTimers \cup { tkInst + 1 }
    /\ UNCHANGED tkTicks

\* The cleanup of the effect: clearInterval(id).
TKCleanup_noclear(timers, id) == timers
TKCleanup(timers, id) == timers \ { id }

TKUnmountStep ==
    /\ tkMounted
    /\ tkMounted' = FALSE
    /\ tkTimers' = TKCleanup(tkTimers, tkInst)
    /\ UNCHANGED << tkPrice, tkUpdated, tkError, tkInst, tkPolls, tkTicks >>

\* The interval timer of instance id fires: fetchPrice().
TKTickStep(id) ==
    /\ id \in tkTimers
    /\ Len(tkPolls) < MaxPolls
    /\ tkTicks' = tkTicks + 1
    /\ TKStartPoll(id, tkMounted, tkInst, tkError)
    /\ UNCHANGED << tkPrice, tkUpdated, tkMounted, tkInst, tkTimers >>

\* catch (e) { setError(...) }
TKFail_clearprice(i, msg, status) ==
    /\ tkPolls' = [ tkPolls EXCEPT ![i] = [ @ EXCEPT !.pc = "done", !.outcome = "fail",
                                                     !.status = status ] ]
    /\ IF TKLive(tkPolls[i].inst)
       THEN /\ tkError' = Some(TKCatchMessage(msg))
            /\ tkPrice' = Null
            /\ tkUpdated' = Some(tkTicks)
       ELSE UNCHANGED << tkError, tkPrice, tkUpdated >>
    /\ UNCHANGED << tkMounted, tkInst, tkTimers, tkTicks >>

TKFail(i, msg, status) ==
    /\ tkPolls' = [ tkPolls EXCEPT ![i] = [ @ EXCEPT !.pc = "done", !.outcome = "fail",
                                                     !.status = status ] ]
    /\ IF TKLive(tkPolls[i].inst)
       THEN tkError' = Some(TKCatchMessage(msg))
       ELSE UNCHANGED tkError
    /\ UNCHANGED << tkPrice, tkUpdated, tkMounted, tkInst, tkTimers, tkTicks >>

\* The continuation after `await fetch(...)`.
TKFetchSettleStep(i) ==
    /\ tkPolls[i].pc = "fetch"
    /\ \/ \E msg \in RejectMessages : TKFail(i, msg, 0)
       \/ \E s \in Statuses :
            IF ~ResOk(s)
            THEN TKFail(i, HttpMessage(s), s)
            ELSE /\ tkPolls' = [ tkPolls EXCEPT ![i] = [ @ EXCEPT !.pc = "json", !.status = s ] ]
                 /\ UNCHANGED << tkPrice, tkUpdated, tkError, tkMounted, tkInst,
                                 tkTimers, tkTicks >>

\* The continuation after `await res.json()`: setPrice(v),
\* setUpdated(new Date().toLocaleTimeString()).
TKJsonSettleStep(i) ==
    /\ tkPolls[i].pc = "json"
    /\ \E body \in TKBodies :
         IF body.kind = "badjson"
         THEN TKFail(i, JsonSyntaxMessage, tkPolls[i].status)
         ELSE /\ tkPolls' = [ tkPolls EXCEPT ![i] =
                                [ @ EXCEPT !.pc = "done", !.outcome = "ok",
                                           !.applied = TKLive(tkPolls[i].inst),
                                           !.usd = TKValue(body) ] ]
              /\ IF TKLive(tkPolls[i].inst)
                 THEN /\ tkPrice' = TKValue(body)
                      /\ tkUpdated' = Some(tkTicks)
                 ELSE UNCHANGED << tkPrice, tkUpdated >>
              /\ UNCHANGED << tkError, tkMounted, tkInst, tkTimers, tkTicks >>

TKMount == TKMountStep /\ UNCHANGED << bfVars, fbVars, fnVars >>
TKUnmount == TKUnmountStep /\ UNCHANGED << bfVars, fbVars, fnVars >>
TKTick == (\E id \in tkTimers : TKTickStep(id)) /\ UNCHANGED << bfVars, fbVars, fnVars >>
TKFetchSettle == (\E i \in DOMAIN tkPolls : TKFetchSettleStep(i)) /\ UNCHANGED << bfVars, fbVars, fnVars >>
TKJsonSettle == (\E i \in DOMAIN tkPolls : TKJsonSettleStep(i)) /\ UNCHANGED << bfVars, fbVars, fnVars >>

\* ============================================================ specifications
\* No helper function is under way.
FnIdle == fnIn = Null /\ fnOut = Null /\ fnPc = "idle"

\* The three components as they are after their first render.
Mounted == BFInit /\ FBInit /\ TKInit

Init == Mounted /\ FnIdle

BFNext == BFClick \/ BFFetchSettle \/ BFJsonSettle \/ BFRender
FBNext == FBClick \/ FBFetchSettle \/ FBJsonSettle \/ FBRender
TKNext == TKMount \/ TKUnmount \/ TKTick \/ TKFetchSettle \/ TKJsonSettle

SpecBF == Init /\ [][BFNext]_vars

\* BrowserForecast where every fetch() promise is settled in the end and
\* React renders the state that was set; nothing makes res.json() settle.
SpecBFLive ==
    /\ Init
    /\ [][BFNext]_vars
    /\ WF_vars(BFFetchSettle)
    /\ WF_vars(BFRender)
SpecFB == Init /\ [][FBNext]_vars
SpecTK == Init /\ [][TKNext]_vars

\* ===================================================================== claims
BFLatestFailed == BFClicks > 0 /\ bfRuns[BFClicks].outcome = "fail"
BFViewCurrent == bfView = BFViewOf(bfLoading, bfError, bfResult)

\* C1: at most one run of BrowserForecast.onClick is in flight at any time;
\* a click that arrives while a run is in flight starts no second run.
C1_AtMostOneRunInFlight == Cardinality(BFInFlight) <= 1

\* A second click arrived while the first run was in flight and was ignored.
C1_Witness == BFClicks = 1 /\ bfAttempts >= 2 /\ Cardinality(BFInFlight) = 1

\* C2: every failure of a forecast run ends with loading = false and error =
\* one non-empty message, and with the button enabled once that state is
\* rendered; no failed run is left unfinished with loading = true.
C2_FailureCaught ==
    BFLatestFailed =>
        /\ bfRuns[BFClicks].pc = "done"
        /\ bfLoading = FALSE
        /\ Len(bfError) = 1
        /\ bfError[1] # ""
        /\ (BFViewCurrent => ~bfView.disabled)

\* A rejection without a message was caught, rendered, and the button is
\* enabled for a retry.
C2_Witness ==
    /\ BFLatestFailed
    /\ bfRuns[BFClicks].cause = "reject"
    /\ bfError = Some("Failed to compute forecast")
    /\ BFViewCurrent
    /\ ~bfView.disabled

\* C3 (as stated): after a failed run, result is the result that was displayed
\* before the click.
C3_FailedRunKeepsPreClickResult ==
    BFLatestFailed => bfResult = bfRuns[BFClicks].pre

\* C3 (amended): after a failed run, result is null and nothing is displayed
\* as result, whatever was displayed before the click; result equals its
\* pre-click value only when that value was null.
C3_FailedRunLeavesNoResult ==
    BFLatestFailed =>
        /\ bfResult = Null
        /\ bfView.result = Null
        /\ (bfResult = bfRuns[BFClicks].pre <=> bfRuns[BFClicks].pre = Null)

\* A run failed after a click that was made while a result was displayed.
C3_Witness == BFLatestFailed /\ bfRuns[BFClicks].pre # Null

\* C4: once a click is accepted, the result of an earlier click is neither
\* held nor displayed any more; result is null until the run of the latest
\* accepted click succeeds.
C4_ClickDiscardsResult ==
    /\ bfResult # Null =>
          /\ bfResult[1].run = BFClicks
          /\ bfRuns[BFClicks].outcome = "ok"
    /\ bfView.result # Null => bfView.result[1].run = BFClicks

\* The first run succeeded, a second click was accepted, its run is still
\* waiting and nothing is displayed.
C4_Witness ==
    /\ BFClicks = 2
    /\ bfRuns[1].outcome = "ok"
    /\ bfRuns[2].pc = "json"
    /\ bfResult = Null
    /\ bfView.result = Null

\* The number of entries of json.prices whose price is a finite number.
FiniteCount(raw) == Cardinality({ j \in DOMAIN raw : raw[j].fin })

\* C5: a run whose history has fewer than 60 finite prices fails with the
\* message "Not enough data from API", runs no estimation and sets no result;
\* a run whose history has 60 or more finite prices is not failed by the check.
C5_NotEnoughData ==
    \A i \in DOMAIN bfRuns :
        (bfRuns[i].pc = "done" /\ bfRuns[i].kind = "prices") =>
            IF FiniteCount(bfRuns[i].raw) < 60
            THEN /\ bfRuns[i].outcome = "fail"
                 /\ bfRuns[i].cause = "toofew"
                 /\ ~bfRuns[i].computed
                 /\ (i = BFClicks =>
                        bfError = Some("Not enough data from API") /\ bfResult = Null)
            ELSE /\ bfRuns[i].outcome = "ok"
                 /\ bfRuns[i].computed
                 /\ (i = BFClicks => bfError = Null /\ bfResult # Null)

\* A history of 60 or more entries of which only 59 are finite was rejected.
C5_Witness ==
    /\ BFLatestFailed
    /\ bfRuns[BFClicks].cause = "toofew"
    /\ Len(bfRuns[BFClicks].raw) >= 60
    /\ FiniteCount(bfRuns[BFClicks].raw) = 59

\* C6: the number of requests to the history endpoint equals the number of
\* accepted clicks, also after failed requests.
C6_OneRequestPerClick == bfRequests = BFClicks

\* Two runs failed, the first by a rejected fetch, and two requests were made.
C6_Witness ==
    /\ BFClicks = 2
    /\ bfRuns[1].cause = "reject"
    /\ bfRuns[2].cause = "http"
    /\ bfRequests = 2

\* C7: a failing poll of the mounted PriceTicker sets the error message and
\* leaves price and updated as they were.
C7_FailedPollKeepsPrice ==
    [][ \A i \in DOMAIN tkPolls :
          ( /\ tkPolls[i].outcome = "none"
            /\ tkPolls'[i].outcome = "fail"
            /\ TKLive(tkPolls[i].inst) ) =>
          ( /\ tkPrice' = tkPrice
            /\ tkUpdated' = tkUpdated
            /\ Len(tkError') = 1
            /\ tkError'[1] # "" ) ]_vars

\* A poll failed after an earlier poll had set a price, and the price is
\* still there next to the error.
C7_Witness ==
    /\ tkMounted
    /\ tkPrice # Null
    /\ tkError # Null
    /\ \E i \in DOMAIN tkPolls : tkPolls[i].outcome = "fail" /\ tkPolls[i].live

\* C8: PriceTicker has issued one poll per mount and one per timer firing;
\* exactly the mounted instance has a timer, so that an unmounted ticker
\* has none and issues no poll.
C8_PollPerMountAndTick ==
    /\ Len(tkPolls) = tkInst + tkTicks
    /\ tkTimers = (IF tkMounted THEN { tkInst } ELSE {})
    /\ \A i \in DOMAIN tkPolls : tkPolls[i].live

\* The ticker was mounted, polled on a timer firing, and was unmounted.
C8_Witness ==
    /\ ~tkMounted
    /\ tkInst = 1
    /\ tkTicks >= 1
    /\ Len(tkPolls) = 1 + tkTicks
    /\ tkTimers = {}

\* C9 (as stated): for the ticker price, the price history and the backend
\* forecast alike, a response with a non-2xx status fails the run and its
\* body never reaches price, result or data.
C9_Non2xxIsFailure ==
    /\ \A i \in DOMAIN tkPolls :
          (tkPolls[i].pc = "done" /\ tkPolls[i].status # 0 /\ ~ResOk(tkPolls[i].status)) =>
              tkPolls[i].outcome = "fail" /\ ~tkPolls[i].applied
    /\ \A i \in DOMAIN bfRuns :
          (bfRuns[i].pc = "done" /\ bfRuns[i].status # 0 /\ ~ResOk(bfRuns[i].status)) =>
              bfRuns[i].outcome = "fail" /\ bfRuns[i].kind = "none"
    /\ \A i \in DOMAIN fbRuns :
          (fbRuns[i].pc = "done" /\ fbRuns[i].status # 0 /\ ~ResOk(fbRuns[i].status)) =>
              fbRuns[i].outcome = "fail"
    /\ fbData # Null => ResOk(fbData[1].status)

\* The message C10 expects for a failed run of getForecast.
FBExpectedErr(run) ==
    IF run.cause = "notok"
    THEN IF run.body.error \in { Null, Some("") } THEN "Failed" ELSE run.body.error[1]
    ELSE IF run.reject = "" THEN "Request failed" ELSE run.reject

\* C10: a run of ForecastButton that ends on a body with ok:false (or without
\* ok) or on a network failure leaves err = the body's error text if present,
\* else a default, with data = null and loading = false; data only ever holds
\* a body whose ok field is true.
C10_OkFalseOrNetworkFailure ==
    /\ (FBClicks > 0 /\ fbRuns[FBClicks].outcome = "fail"
            /\ fbRuns[FBClicks].cause \in { "notok", "reject" }) =>
          /\ fbErr = Some(FBExpectedErr(fbRuns[FBClicks]))
          /\ fbErr[1] # ""
          /\ fbData = Null
          /\ fbLoading = FALSE
    /\ fbData # Null => fbData[1].ok = Some(TRUE)

\* After a successful run, a second run ended on ok:false with an error text,
\* which is now the error shown.
C10_Witness ==
    /\ FBClicks = 2
    /\ fbRuns[1].outcome = "ok"
    /\ fbRuns[2].cause = "notok"
    /\ fbRuns[2].body.error = Some("pipeline crashed")
    /\ fbErr = Some("pipeline crashed")
    /\ fbData = Null

\* ================================================================= arithmetic
(***************************************************************************)
(* Numbers are fixed-point: prices are whole dollars, logarithms, returns, *)
(* mu and sigma are in units of 1/10000.  Every operation rounds to that   *)
(* grid, as the double operations of the code round to theirs.             *)
(***************************************************************************)

\* a / b rounded to the nearest integer, for b > 0.
RoundDiv(a, b) == (a + b \div 2) \div b

\* a * b / c without leaving 32 bits, for a, b >= 0 and c > 0.
MulDiv(a, b, c) == (a \div c) * b + RoundDiv((a % c) * b, c)

Abs(a) == IF a < 0 THEN -a ELSE a
Min(a, b) == IF a <= b THEN a ELSE b
Max(a, b) == IF a >= b THEN a ELSE b

\* The price levels histories and starting prices are drawn from.
PriceLevels ==
    { 1000 * k : k \in 90..110 } \cup { 95600, 98999, 104600, 1, 1000000 }

\* Math.log(x), in 1/10000, for x a price level.
MathLog(x) ==
    CASE x = 90000 -> 114076 []
         x = 91000 -> 114186 []
         x = 92000 -> 114295 []
         x = 93000 -> 114404 []
         x = 94000 -> 114511 []
         x = 95000 -> 114616 []
         x = 96000 -> 114721 []
         x = 97000 -> 114825 []
         x = 98000 -> 114927 []
         x = 99000 -> 115029 []
         x = 100000 -> 115129 []
         x = 101000 -> 115229 []
         x = 102000 -> 115327 []
         x = 103000 -> 115425 []
         x = 104000 -> 115521 []
         x = 105000 -> 115617 []
         x = 106000 -> 115712 []
         x = 107000 -> 115806 []
         x = 108000 -> 115899 []
         x = 109000 -> 115991 []
         x = 110000 -> 116082 []
         x = 95600 -> 114679 []
         x = 98999 -> 115029 []
         x = 104600 -> 115579 []
         x = 1 -> 0 []
         x = 1000000 -> 138155

\* e^q in dollars for whole q from 1 to 20.
ExpWhole == << 3, 7, 20, 55, 148, 403, 1097, 2981, 8103, 22026, 59874, 162755, 442413, 1202604, 3269017, 8886111, 24154953, 65659969, 178482301, 485165195 >>

\* e^(r/10000) for 0 <= r < 10000, in 1/10000: the Taylor series of exp.
RECURSIVE ExpSeries(_, _, _)
ExpSeries(r, k, term) ==
    IF term = 0 \/ k > 12
    THEN 0
    ELSE term + ExpSeries(r, k + 1, RoundDiv(term * r, k * 10000))

\* Math.exp(l) in whole dollars, for l in 1/10000. A double is positive down
\* to e^-745.1332 and 0 below; a positive result under a dollar counts as 1.
MathExp(l) ==
    IF l < -7451332 THEN 0
    ELSE IF l < 0 THEN 1
    ELSE LET q == l \div 10000
             r == l % 10000
             whole == IF q = 0 THEN 1 ELSE ExpWhole[q]
         IN  MulDiv(whole, ExpSeries(r, 1, 10000), 10000)

\* The integer square root: the largest r with r * r <= n.
RECURSIVE SqrtSearch(_, _, _)
SqrtSearch(n, lo, hi) ==
    IF lo >= hi
    THEN lo
    ELSE LET mid == (lo + hi + 1) \div 2
         IN  IF mid * mid <= n THEN SqrtSearch(n, mid, hi) ELSE SqrtSearch(n, lo, mid - 1)

\* Math.sqrt(x) for x >= 0 in 1/10000, in 1/10000; to 1/100 above 20.
MathSqrt(x) ==
    IF x <= 200000 THEN SqrtSearch(x * 10000, 0, 46340)
    ELSE 100 * SqrtSearch(x, 0, 46340)

\* ==================================================== generateDailyProjection
\* "today + d" as the date string of day d.
DateOf(d) == "D+" \o ToString(d)

\* One iteration of the loop of generateDailyProjection: the entry of day d.
ProjectionEntry_nodrag(s0, mu, sigma, d) ==
    LET sigma2 == RoundDiv(sigma * sigma, 10000)
        expectedLogPrice == MathLog(s0) + mu * d
        priceVariance == sigma2 * d
        priceStd == MathSqrt(priceVariance)
    IN  [ day |-> d,
          date |-> DateOf(d),
          price |-> MathExp(expectedLogPrice + RoundDiv(priceVariance, 2)),
          lower |-> MathExp(expectedLogPrice - RoundDiv(196 * priceStd, 100)),
          upper |-> MathExp(expectedLogPrice + RoundDiv(196 * priceStd, 100)) ]

ProjectionEntry_nolower(s0, mu, sigma, d) ==
    LET sigma2 == RoundDiv(sigma * sigma, 10000)
        expectedLogPrice == MathLog(s0) + (mu - RoundDiv(sigma2, 2)) * d
        priceVariance == sigma2 * d
        priceStd == MathSqrt(priceVariance)
    IN  [ day |-> d,
          date |-> DateOf(d),
          price |-> MathExp(expectedLogPrice + RoundDiv(priceVariance, 2)),
          lower |-> MathExp(expectedLogPrice + RoundDiv(196 * priceStd, 100)),
          upper |-> MathExp(expectedLogPrice + RoundDiv(196 * priceStd, 100)) ]

ProjectionEntry(s0, mu, sigma, d) ==
    LET sigma2 == RoundDiv(sigma * sigma, 10000)
        expectedLogPrice == MathLog(s0) + (mu - RoundDiv(sigma2, 2)) * d
        priceVariance == sigma2 * d
        priceStd == MathSqrt(priceVariance)
    IN  [ day |-> d,
          date |-> DateOf(d),
          price |-> MathExp(expectedLogPrice + RoundDiv(priceVariance, 2)),
          lower |-> MathExp(expectedLogPrice - RoundDiv(196 * priceStd, 100)),
          upper |-> MathExp(expectedLogPrice + RoundDiv(196 * priceStd, 100)) ]

generateDailyProjection(s0, mu, sigma, days) ==
    [ d \in 1..days |-> ProjectionEntry(s0, mu, sigma, d) ]

\* Arguments: a starting price, a daily drift and a daily volatility (in
\* 1/10000, from none to 200% a day), a number of days.
StartPrices == { 95000, 98999, 99000, 105000 }
Drifts == { -200, 0, 200 }
Volatilities == { 0, 300, 10000, 20000 }

ProjectionInputs ==
    [ s0 : StartPrices, mu : Drifts, sigma : Volatilities, days : 1..MaxDays ]

ProjectionInit ==
    /\ Mounted
    /\ fnIn \in ProjectionInputs
    /\ fnOut = Null
    /\ fnPc = "call"

ProjectionCall ==
    /\ fnPc = "call"
    /\ fnOut' = generateDailyProjection(fnIn.s0, fnIn.mu, fnIn.sigma, fnIn.days)
    /\ fnPc' = "return"
    /\ UNCHANGED << fnIn, bfVars, fbVars, tkVars >>

ProjectionNext == ProjectionCall

SpecProjection == ProjectionInit /\ [][ProjectionNext]_vars

\* sigma * sqrt(d) <= 3.92, i.e. sigma^2 * d <= 15.3664
WithinBand(sigma, d) == RoundDiv(sigma * sigma, 100) * d <= 15366400

Ratio(n, d) == [ num |-> n, den |-> d ]
Gt(x, y) == x.num * y.den > y.num * x.den
Lt(x, y) == x.num * y.den < y.num * x.den

RECURSIVE SeqSum(_)
\* xs.reduce((a, b) => a + b, 0)
SeqSum(xs) ==
    IF Len(xs) = 0 THEN 0
    ELSE IF Len(xs) = 1 THEN xs[1]
    ELSE LET half == Len(xs) \div 2
         IN  SeqSum(SubSeq(xs, 1, half)) + SeqSum(SubSeq(xs, half + 1, Len(xs)))

mean(xs) == IF Len(xs) = 0 THEN Ratio(0, 1) ELSE Ratio(SeqSum(xs), Len(xs))

\* xs.slice(-k)
SliceLast(xs, k) == SubSeq(xs, Max(1, Len(xs) - k + 1), Len(xs))

\* Math.log(p / q), in 1/10000.
LogReturn(p, q) == MathLog(p) - MathLog(q)

\* prices.slice(1).map((p, i) => Math.log(p / prices[i]))
LogReturns(prices) ==
    [ i \in 1..(Len(prices) - 1) |-> LogReturn(prices[i + 1], prices[i]) ]

detectRegime_atleast(prices) ==
    LET returns == LogReturns(prices)
        shortMA == mean(SliceLast(returns, 7))
        longMA == mean(SliceLast(returns, 30))
    IN  IF ~Lt(shortMA, Ratio(50, 1)) /\ Gt(shortMA, longMA) THEN "bull"
        ELSE IF ~Gt(shortMA, Ratio(-50, 1)) /\ Lt(shortMA, longMA) THEN "bear"
        ELSE "sideways"

detectRegime(prices) ==
    LET returns == LogReturns(prices)
        shortMA == mean(SliceLast(returns, 7))
        longMA == mean(SliceLast(returns, 30))
    IN  IF Gt(shortMA, Ratio(50, 1)) /\ Gt(shortMA, longMA) THEN "bull"
        ELSE IF Lt(shortMA, Ratio(-50, 1)) /\ Lt(shortMA, longMA) THEN "bear"
        ELSE "sideways"

\* Price histories: n daily prices at level a, then b for the 18 days before
\* the last two, then c.
SeriesLevels == { 90000, 95600, 99000, 101000, 104600, 110000 }
SeriesLengths == { 1, 3, 25, 60 }
Series(n, a, b, c) ==
    [ i \in 1..n |-> IF i > n - 2 THEN c ELSE IF i > n - 20 THEN b ELSE a ]
SeriesInputs ==
    { Series(n, a, b, c) : n \in SeriesLengths, a \in SeriesLevels,
                           b \in SeriesLevels, c \in SeriesLevels }

RegimeInit ==
    /\ Mounted
    /\ fnIn \in SeriesInputs
    /\ fnOut = Null
    /\ fnPc = "call"

RegimeCall ==
    /\ fnPc = "call"
    /\ fnOut' = detectRegime(fnIn)
    /\ fnPc' = "return"
    /\ UNCHANGED << fnIn, bfVars, fbVars, tkVars >>

RegimeNext == RegimeCall

SpecRegime == RegimeInit /\ [][RegimeNext]_vars

RECURSIVE ReturnsSum(_, _, _)
\* The sum of the daily log returns from day lo to day hi of a history.
ReturnsSum(prices, lo, hi) ==
    IF lo > hi THEN 0
    ELSE IF lo = hi THEN MathLog(prices[lo + 1]) - MathLog(prices[lo])
    ELSE LET mid == (lo + hi) \div 2
         IN  ReturnsSum(prices, lo, mid) + ReturnsSum(prices, mid + 1, hi)

\* The sum of the last k daily log returns of a history (of all, if fewer).
LastReturnsSum(prices, k) ==
    ReturnsSum(prices, Max(1, Len(prices) - k), Len(prices) - 1)

\* C13: the regime is one of bull, bear, sideways; it is bull exactly when the
\* 7-day mean return is above 0.005 and above the 30-day mean, bear exactly
\* when it is below -0.005 and below the 30-day mean, sideways otherwise, and
\* the bull and bear conditions never hold together.
C13_RegimeByMeans ==
    fnPc = "return" =>
        LET r == Len(fnIn) - 1
            k7 == Min(7, r)
            k30 == Min(30, r)
            sum7 == LastReturnsSum(fnIn, 7)
            sum30 == LastReturnsSum(fnIn, 30)
            up == r > 0 /\ sum7 * 1000 > 5 * k7 * 10000 /\ sum7 * k30 > sum30 * k7
            down == r > 0 /\ sum7 * 1000 < -5 * k7 * 10000 /\ sum7 * k30 < sum30 * k7
        IN  /\ fnOut \in { "bull", "bear", "sideways" }
            /\ fnOut = "bull" <=> up
            /\ fnOut = "bear" <=> down
            /\ fnOut = "sideways" <=> ~up /\ ~down
            /\ ~(up /\ down)

\* A history whose 7-day mean is exactly 0.005 and above its 30-day mean.
C13_Witness ==
    /\ fnPc = "return"
    /\ Len(fnIn) > 30
    /\ LastReturnsSum(fnIn, 7) = 350
    /\ LastReturnsSum(fnIn, 7) * 30 > LastReturnsSum(fnIn, 30) * 7
    /\ fnOut = "sideways"

\* C26: in BrowserForecast result and error are never both non-null, in the
\* state cells or in what is displayed, whatever the clicks and the outcomes
\* of the fetches.
C26_ResultAndErrorExclusive ==
    /\ ~(bfResult # Null /\ bfError # Null)
    /\ ~(bfView.result # Null /\ bfView.error # Null)

\* A first run failed and its message was displayed; the run of a second
\* click succeeded, and its result is displayed without the message.
C26_Witness ==
    /\ BFClicks = 2
    /\ bfRuns[1].outcome = "fail"
    /\ bfRuns[2].outcome = "ok"
    /\ bfResult # Null /\ bfError = Null
    /\ BFViewCurrent

\* loading = false and exactly one of result and error is set.
BFSettled == bfLoading = FALSE /\ ((bfResult # Null) # (bfError # Null))

TKApplied ==
    { i \in DOMAIN tkPolls : tkPolls[i].inst = tkInst /\ tkPolls[i].outcome = "ok" }

\* C28: once every response has arrived, the price of the mounted ticker is
\* that of the most recently started successful poll, in whatever order the
\* responses of overlapping polls arrived (every body read held a price).
C28_LatestStartedPollWins ==
    ( /\ tkMounted
      /\ \A i \in DOMAIN tkPolls : tkPolls[i].pc = "done"
      /\ \A i \in TKApplied : tkPolls[i].usd # Null
      /\ TKApplied # {} ) =>
        tkPrice = tkPolls[CHOOSE i \in TKApplied : \A j \in TKApplied : j <= i].usd

\* C29: once the price of a ticker instance is not null, it does not become
\* null again, whatever the outcome of a later poll.
C29_PriceNeverNullAgain ==
    [][ (tkPrice # Null /\ tkInst' = tkInst) => tkPrice' # Null ]_vars

\* ============================================================ blendForecasts
\* The weights of the three models, in hundredths.
Weights_heavy(regime) ==
    IF regime = "bull" THEN [ arima |-> 25, prophet |-> 35, lstm |-> 45 ]
    ELSE IF regime = "bear" THEN [ arima |-> 40, prophet |-> 35, lstm |-> 25 ]
    ELSE [ arima |-> 35, prophet |-> 35, lstm |-> 35 ]

Weights(regime) ==
    IF regime = "bull" THEN [ arima |-> 25, prophet |-> 35, lstm |-> 40 ]
    ELSE IF regime = "bear" THEN [ arima |-> 40, prophet |-> 35, lstm |-> 25 ]
    ELSE [ arima |-> 35, prophet |-> 35, lstm |-> 30 ]

\* arima[h] * weights.arima + prophet[h] * weights.prophet + lstm * weights.lstm:
\* each product is rounded to the grid of the prices, as each product of
\* doubles is rounded to a double.
Blend_arimaonly(m, w, h) == m.arima[h]

Blend(m, w, h) ==
    RoundDiv(m.arima[h] * w.arima, 100) + RoundDiv(m.prophet[h] * w.prophet, 100)
        + RoundDiv(m.lstm * w.lstm, 100)

\* arima[1] - (arima[1] - lstm) * (23 / 24)
Blend1h_prophet(m) == m.prophet[1] - RoundDiv((m.prophet[1] - m.lstm) * 23, 24)

Blend1h(m) == m.arima[1] - RoundDiv((m.arima[1] - m.lstm) * 23, 24)

\* The returned blends, with the weights the call chose.
blendForecasts(m, regime) ==
    LET weights == Weights(regime)
    IN  [ weights |-> weights,
          h1 |-> Blend1h(m),
          d1 |-> Blend(m, weights, 1),
          w1 |-> Blend(m, weights, 7),
          m1 |-> Blend(m, weights, 30) ]

ModelDays == { 1, 7, 30 }
Regimes == { "bull", "bear", "sideways", "volatile", "" }
BlendInputs ==
    [ arima : [ ModelDays -> { 95000, 99001, 105000 } ],
      prophet : [ ModelDays -> { 95000, 99001, 105000 } ],
      lstm : { 90000, 99001, 100000, 110000 },
      regime : Regimes ]

BlendInit ==
    /\ Mounted
    /\ fnIn \in BlendInputs
    /\ fnOut = Null
    /\ fnPc = "call"

BlendCall ==
    /\ fnPc = "call"
    /\ fnOut' = blendForecasts(fnIn, fnIn.regime)
    /\ fnPc' = "return"
    /\ UNCHANGED << fnIn, bfVars, fbVars, tkVars >>

BlendNext == BlendCall

SpecBlend == BlendInit /\ [][BlendNext]_vars

\* C14: whatever the regime string, the three weights blendForecasts chooses
\* are non-negative and sum to 1; a string that is neither bull nor bear gets
\* the sideways weights.
C14_WeightsSumToOne ==
    fnPc = "return" =>
        LET w == fnOut.weights
        IN  /\ w.arima >= 0 /\ w.prophet >= 0 /\ w.lstm >= 0
            /\ w.arima + w.prophet + w.lstm = 100
            /\ fnIn.regime \notin { "bull", "bear" }
                   => w = [ arima |-> 35, prophet |-> 35, lstm |-> 30 ]

\* A blend under a regime string that is none of the three.
C14_Witness ==
    /\ fnPc = "return"
    /\ fnIn.regime = "volatile"
    /\ fnOut.weights.lstm = 30
    /\ fnOut.d1 # fnIn.lstm

\* The three values blended for horizon h, and the blend of that horizon.
BlendedValues(h) == { fnIn.arima[h], fnIn.prophet[h], fnIn.lstm }
BlendOf(h) == IF h = 1 THEN fnOut.d1 ELSE IF h = 7 THEN fnOut.w1 ELSE fnOut.m1

C23_OneHourBlend ==
    fnPc = "return" =>
        LET a == fnIn.arima[1]
            l == fnIn.lstm
        IN  /\ fnOut.h1 = a - RoundDiv((a - l) * 23, 24)
            /\ Abs(24 * fnOut.h1 - (a + 23 * l)) <= 12
            /\ Min(a, l) <= fnOut.h1 /\ fnOut.h1 <= Max(a, l)
            /\ \A r \in Regimes, p \in [ ModelDays -> { 95000, 105000 } ] :
                   blendForecasts([ fnIn EXCEPT !.prophet = p ], r).h1 = fnOut.h1

\* A bear blend whose 1-hour value is strictly between the 1-day ARIMA value
\* and the LSTM value, nearer the latter, with a Prophet value above both.
C23_Witness ==
    /\ fnPc = "return"
    /\ fnIn.regime = "bear"
    /\ fnIn.arima[1] = 95000 /\ fnIn.lstm = 100000 /\ fnIn.prophet[1] = 105000
    /\ 99000 < fnOut.h1 /\ fnOut.h1 < 100000

\* =================================================================== doubles
\* A number that a computation may leave not finite: a finite value v in
\* 1/10000, or NaN, Infinity, -Infinity.
Fin(v) == [ cls |-> "finite", v |-> v ]
NaN == [ cls |-> "NaN", v |-> 0 ]
PInf == [ cls |-> "Infinity", v |-> 1 ]
NInf == [ cls |-> "-Infinity", v |-> -1 ]

\* Number.isFinite(x)
IsFinite(x) == x.cls = "finite"
IsNaN(x) == x.cls = "NaN"

Sgn(a) == IF a > 0 THEN 1 ELSE IF a < 0 THEN -1 ELSE 0

\* The infinity of the sign sg.
Inf(sg) == IF sg > 0 THEN PInf ELSE NInf

FNeg(x) == IF IsFinite(x) THEN Fin(- x.v) ELSE IF IsNaN(x) THEN NaN ELSE Inf(- x.v)
FAbs(x) == IF IsFinite(x) THEN Fin(Abs(x.v)) ELSE IF IsNaN(x) THEN NaN ELSE PInf

\* x + y
FAdd(x, y) ==
    IF IsNaN(x) \/ IsNaN(y) THEN NaN
    ELSE IF IsFinite(x) /\ IsFinite(y) THEN Fin(x.v + y.v)
    ELSE IF ~IsFinite(x) /\ ~IsFinite(y) /\ x # y THEN NaN
    ELSE IF IsFinite(x) THEN y ELSE x

\* x - y
FSub(x, y) == FAdd(x, FNeg(y))

\* x * y
FMul(x, y) ==
    IF IsNaN(x) \/ IsNaN(y) THEN NaN
    ELSE IF IsFinite(x) /\ IsFinite(y)
         THEN Fin(Sgn(x.v) * Sgn(y.v) * MulDiv(Abs(x.v), Abs(y.v), 10000))
    ELSE IF x.v = 0 \/ y.v = 0 THEN NaN
    ELSE Inf(Sgn(x.v) * Sgn(y.v))

\* x * n for a whole n > 0
FScale(x, n) == IF IsFinite(x) THEN Fin(x.v * n) ELSE x

\* x / y
FDiv(x, y) ==
    IF IsNaN(x) \/ IsNaN(y) THEN NaN
    ELSE IF IsFinite(x) /\ IsFinite(y)
         THEN IF y.v = 0
              THEN IF x.v = 0 THEN NaN ELSE Inf(Sgn(x.v))
              ELSE Fin(Sgn(x.v) * Sgn(y.v) * MulDiv(Abs(x.v), 10000, Abs(y.v)))
    ELSE IF ~IsFinite(x) /\ ~IsFinite(y) THEN NaN
    ELSE IF IsFinite(x) THEN Fin(0)
    ELSE Inf(x.v * (IF y.v < 0 THEN -1 ELSE 1))

\* Math.sqrt(x)
FSqrt(x) ==
    IF IsNaN(x) \/ x.v < 0 THEN NaN
    ELSE IF IsFinite(x) THEN Fin(MathSqrt(x.v)) ELSE PInf

\* x < y and x > y: false when either is NaN
FLt(x, y) ==
    /\ ~IsNaN(x) /\ ~IsNaN(y)
    /\ IF IsFinite(x) /\ IsFinite(y) THEN x.v < y.v
       ELSE IF IsFinite(x) THEN y = PInf
       ELSE IF IsFinite(y) THEN x = NInf
       ELSE x = NInf /\ y = PInf
FGt(x, y) == FLt(y, x)

\* What a condition or || takes for true: neither 0 nor NaN.
Truthy(x) == ~IsNaN(x) /\ ~(IsFinite(x) /\ x.v = 0)

\* Math.log(p / q) for prices p, q >= 0: p / 0 is Infinity, 0 / 0 is NaN.
LogOfRatio(p, q) ==
    IF q = 0 THEN (IF p = 0 THEN NaN ELSE PInf)
    ELSE IF p = 0 THEN NInf
    ELSE Fin(LogReturn(p, q))

\* prices.slice(1).map((p, i) => Math.log(p / prices[i])), not all finite.
Returns(prices) ==
    [ i \in 1..(Len(prices) - 1) |-> LogOfRatio(prices[i + 1], prices[i]) ]

\* The values of finite numbers.
Values(xs) == [ i \in DOMAIN xs |-> xs[i].v ]

RECURSIVE FSum(_)
\* xs.reduce((a, b) => a + b, 0)
FSum(xs) ==
    IF Len(xs) = 0 THEN Fin(0)
    ELSE IF Len(xs) = 1 THEN xs[1]
    ELSE LET half == Len(xs) \div 2
         IN  FAdd(FSum(SubSeq(xs, 1, half)), FSum(SubSeq(xs, half + 1, Len(xs))))

\* A quotient as a number in 1/10000.
Value(r) == RoundDiv(r.num, r.den)

\* Math.sqrt(v) in 1/10000, for v >= 0 in 1/10^8.
SqrtFine(v) == SqrtSearch(v, 0, 46340)

\* std of finite numbers in 1/10000: the sample standard deviation. The
\* squares are kept in 1/10^8 while the deviations are below 0.5, in 1/10000
\* above.
std(xs) ==
    IF Len(xs) < 2 THEN 0
    ELSE LET m == Value(mean(xs))
             dev == [ i \in DOMAIN xs |-> Abs(xs[i] - m) ]
         IN  IF \A i \in DOMAIN xs : dev[i] <= 5000
             THEN SqrtFine(RoundDiv(
                      SeqSum([ i \in DOMAIN xs |-> dev[i] * dev[i] ]),
                      Len(xs) - 1))
             ELSE MathSqrt(RoundDiv(
                      SeqSum([ i \in DOMAIN xs |-> MulDiv(dev[i], dev[i], 10000) ]),
                      Len(xs) - 1))

\* mean of numbers that may not be finite.
meanOf(xs) ==
    LET sum == FSum(xs)
    IN  IF IsFinite(sum) THEN Fin(Value(mean(Values(xs)))) ELSE sum

\* std of numbers that may not be finite.
stdOf(xs) ==
    IF Len(xs) < 2 THEN Fin(0)
    ELSE IF \A i \in DOMAIN xs : IsFinite(xs[i]) THEN Fin(std(Values(xs)))
    ELSE LET m == meanOf(xs)
             sq == [ i \in DOMAIN xs |-> FMul(FSub(xs[i], m), FSub(xs[i], m)) ]
         IN  FSqrt(FDiv(FSum(sq), Fin((Len(xs) - 1) * 10000)))

\* ====================================================== calculateRiskMetrics
\* (p - peak) / peak
Drawdown(p, peak) == FDiv(Fin(p - peak), Fin(peak))

\* if (p > peak) peak = p
NextPeak_first(p, peak) == peak

NextPeak(p, peak) == IF p > peak THEN p ELSE peak

\* One iteration of the loop over prices: the peak and the deepest drawdown
\* after price p.
DrawdownStep(st, p) ==
    LET newPeak == NextPeak(p, st.peak)
        dd == Drawdown(p, newPeak)
    IN  [ peak |-> newPeak,
          maxDD |-> IF FLt(dd, st.maxDD) THEN dd ELSE st.maxDD ]

\* std(negReturns) || stdReturn
DownsideStd_onlyempty(negReturns, stdReturn) ==
    IF Len(negReturns) = 0 THEN stdReturn ELSE stdOf(negReturns)

DownsideStd(negReturns, stdReturn) ==
    IF Truthy(stdOf(negReturns)) THEN stdOf(negReturns) ELSE stdReturn

\* calculateRiskMetrics up to its loop: the ratios of the returns, and the
\* loop's variables before the first price (i is the next position).
RiskBeforeLoop(prices) ==
    LET returns == Returns(prices)
        avgReturn == meanOf(returns)
        stdReturn == stdOf(returns)
        \* Math.sqrt(365) = 19.1050
        sharpe == IF FGt(stdReturn, Fin(0))
                  THEN FMul(FDiv(avgReturn, stdReturn), Fin(191050))
                  ELSE Fin(0)
        negReturns == SelectSeq(returns, LAMBDA r : FLt(r, Fin(0)))
        downsideStd == DownsideStd(negReturns, stdReturn)
        sortino == IF FGt(downsideStd, Fin(0))
                   THEN FMul(FDiv(avgReturn, downsideStd), Fin(191050))
                   ELSE Fin(0)
    IN  [ avgReturn |-> avgReturn, sharpe |-> sharpe, sortino |-> sortino,
          i |-> 1, peak |-> prices[1], maxDD |-> Fin(0) ]

\* calculateRiskMetrics after its loop.
RiskAfterLoop(st) ==
    LET annualizedReturn == FScale(st.avgReturn, 365)
        calmar == IF FGt(FAbs(st.maxDD), Fin(0))
                  THEN FDiv(annualizedReturn, FAbs(st.maxDD)) ELSE Fin(0)
    IN  [ sharpe |-> st.sharpe, sortino |-> st.sortino,
          max_drawdown |-> st.maxDD, calmar |-> calmar ]

\* n.toFixed(digits), digits 1 or 2
ToFixed(x, digits) ==
    IF ~IsFinite(x) THEN x.cls
    ELSE LET unit == IF digits = 1 THEN 10 ELSE 100
             n == RoundDiv(Abs(x.v) * unit, 10000)
             frac == n % unit
         IN  (IF x.v < 0 /\ n > 0 THEN "-" ELSE "")
                 \o ToString(n \div unit) \o "."
                 \o (IF digits = 2 /\ frac < 10 THEN "0" ELSE "")
                 \o ToString(frac)

\* The four numbers of the Risk Metrics panel as they are displayed.
RiskTexts(risk) ==
    [ sharpe |-> ToFixed(risk.sharpe, 2),
      sortino |-> ToFixed(risk.sortino, 2),
      max_drawdown |-> ToFixed(FScale(risk.max_drawdown, 100), 1) \o "%",
      calmar |-> ToFixed(risk.calmar, 2) ]

\* Histories of usable prices: every finite number is one, 0 too.
RiskInputs ==
    SeriesInputs
    \cup { Series(n, a, b, c) : n \in SeriesLengths, a \in { 0, 99000, 101000 },
                                b \in { 0, 99000, 101000 },
                                c \in { 0, 99000, 101000 } }

RiskInit ==
    /\ Mounted
    /\ fnIn \in RiskInputs
    /\ fnOut = Null
    /\ fnPc = "call"

RiskCall ==
    /\ fnPc = "call"
    /\ fnOut' = RiskBeforeLoop(fnIn)
    /\ fnPc' = "loop"
    /\ UNCHANGED << fnIn, bfVars, fbVars, tkVars >>

\* for (const p of prices)
RiskLoop ==
    /\ fnPc = "loop"
    /\ fnOut.i <= Len(fnIn)
    /\ LET st == DrawdownStep(fnOut, fnIn[fnOut.i])
       IN  fnOut' = [ fnOut EXCEPT !.i = @ + 1, !.peak = st.peak,
                                   !.maxDD = st.maxDD ]
    /\ UNCHANGED << fnIn, fnPc, bfVars, fbVars, tkVars >>

RiskReturn ==
    /\ fnPc = "loop"
    /\ fnOut.i > Len(fnIn)
    /\ fnOut' = RiskAfterLoop(fnOut)
    /\ fnPc' = "return"
    /\ UNCHANGED << fnIn, bfVars, fbVars, tkVars >>

\* The render of the Risk Metrics panel with result.risk.
RiskShow ==
    /\ fnPc = "return"
    /\ fnOut' = [ risk |-> fnOut, text |-> RiskTexts(fnOut) ]
    /\ fnPc' = "shown"
    /\ UNCHANGED << fnIn, bfVars, fbVars, tkVars >>

RiskNext == RiskCall \/ RiskLoop \/ RiskReturn \/ RiskShow

SpecRisk == RiskInit /\ [][RiskNext]_vars

\* No price of the history is below the one before it.
Increasing(prices) ==
    \A i \in 1..(Len(prices) - 1) : prices[i] <= prices[i + 1]

\* The highest price among the first i.
RunningPeak(prices, i) ==
    CHOOSE m \in { prices[j] : j \in 1..i } : \A j \in 1..i : prices[j] <= m

\* C15: max_drawdown is never positive and, for positive prices, the least
\* (price - runningPeak) / runningPeak of the history; on an increasing
\* history max_drawdown and calmar are both 0.
C15_MaxDrawdown ==
    fnPc = "return" =>
        /\ IsFinite(fnOut.max_drawdown)
        /\ fnOut.max_drawdown.v <= 0
        /\ Increasing(fnIn) =>
               fnOut.max_drawdown = Fin(0) /\ fnOut.calmar = Fin(0)
        /\ fnOut.calmar # Fin(0) => fnOut.max_drawdown.v < 0
        /\ (\A i \in DOMAIN fnIn : fnIn[i] > 0) =>
               LET dds == { - RoundDiv((RunningPeak(fnIn, i) - fnIn[i]) * 10000,
                                       RunningPeak(fnIn, i)) : i \in DOMAIN fnIn }
               IN  /\ fnOut.max_drawdown.v \in dds
                   /\ \A dd \in dds : fnOut.max_drawdown.v <= dd

\* A history that rises, with a positive mean return, and has calmar 0.
C15_Witness ==
    /\ fnPc = "return"
    /\ Increasing(fnIn)
    /\ Len(fnIn) = 60
    /\ 0 < fnIn[1] /\ fnIn[1] < fnIn[41] /\ fnIn[41] < fnIn[60]
    /\ FGt(fnOut.sharpe, Fin(0))
    /\ fnOut.calmar = Fin(0)

\* C11: a number of the result that is not finite is displayed as N/A, here
\* the four risk metrics of a history long enough for a forecast.
C11_NonFiniteShownAsNA ==
    fnPc = "shown" /\ Len(fnIn) >= MinPrices =>
        \A f \in { "sharpe", "sortino", "max_drawdown", "calmar" } :
            ~IsFinite(fnOut.risk[f]) => fnOut.text[f] = "N/A"

\* The returns of the history below 0.
NegReturns(prices) == SelectSeq(Returns(prices), LAMBDA r : FLt(r, Fin(0)))

\* (avgReturn / d) * Math.sqrt(365) for a denominator d > 0, else 0.
RatioOver(prices, d) ==
    IF FGt(d, Fin(0))
    THEN FMul(FDiv(meanOf(Returns(prices)), d), Fin(191050))
    ELSE Fin(0)

Draws == { -1, 0, 1 }

\* projection.find((p) => p.price >= target)
FindCrossing_last(projection, target) ==
    LET hits == { i \in DOMAIN projection : projection[i].price >= target }
    IN  IF hits = {} THEN Null
        ELSE Some(projection[CHOOSE i \in hits : \A j \in hits : j <= i])

FindCrossing(projection, target) ==
    LET hits == { i \in DOMAIN projection : projection[i].price >= target }
    IN  IF hits = {} THEN Null
        ELSE Some(projection[CHOOSE i \in hits : \A j \in hits : i <= j])

RECURSIVE DailyWalkHits(_, _, _, _, _, _, _)
\* The inner loop of predictTargetDate from day d on, with the draws zs: TRUE
\* when it leaves by the break.
DailyWalkHits(logPrice, d, t, zs, mu, sigma, target) ==
    IF d > t THEN FALSE
    ELSE LET next == logPrice + (mu - RoundDiv(RoundDiv(sigma * sigma, 10000), 2))
                              + sigma * zs[d]
         IN  IF MathExp(next) >= target THEN TRUE
             ELSE DailyWalkHits(next, d + 1, t, zs, mu, sigma, target)

TargetInit ==
    /\ Mounted
    /\ fnIn \in ProjectionInputs
    /\ fnOut = Null
    /\ fnPc = "call"

\* predictTargetDate(dailyProjection, TARGET, lastPrice, mu, sigma) up to its
\* loop over the paths.
TargetCall ==
    /\ fnPc = "call"
    /\ LET projection == generateDailyProjection(fnIn.s0, fnIn.mu, fnIn.sigma,
                                                 fnIn.days)
           crossingDay == FindCrossing(projection, TARGET)
       IN  IF crossingDay = Null
           THEN /\ fnOut' = [ targetDate |-> Null, daysToTarget |-> Null,
                              probability |-> Ratio(0, 1) ]
                /\ fnPc' = "return"
           ELSE /\ fnOut' = [ crossingDay |-> crossingDay[1], i |-> 0,
                              hitCount |-> 0 ]
                /\ fnPc' = "paths"
    /\ UNCHANGED << fnIn, bfVars, fbVars, tkVars >>

\* One path: for (let i = 0; i < paths; i++)
TargetPath ==
    /\ fnPc = "paths"
    /\ fnOut.i < MaxPaths
    /\ \E zs \in [ 1..fnOut.crossingDay.day -> Draws ] :
           LET hit == DailyWalkHits(MathLog(fnIn.s0), 1, fnOut.crossingDay.day,
                                    zs, fnIn.mu, fnIn.sigma, TARGET)
           IN  fnOut' = [ fnOut EXCEPT
                            !.i = @ + 1,
                            !.hitCount = IF hit THEN @ + 1 ELSE @ ]
    /\ UNCHANGED << fnIn, fnPc, bfVars, fbVars, tkVars >>

TargetReturn ==
    /\ fnPc = "paths"
    /\ fnOut.i = MaxPaths
    /\ fnOut' = [ targetDate |-> Some(fnOut.crossingDay.date),
                  daysToTarget |-> Some(fnOut.crossingDay.day),
                  probability |-> Ratio(fnOut.hitCount, MaxPaths) ]
    /\ fnPc' = "return"
    /\ UNCHANGED << fnIn, bfVars, fbVars, tkVars >>

TargetNext == TargetCall \/ TargetPath \/ TargetReturn

SpecTarget == TargetInit /\ [][TargetNext]_vars

\* C16: predictTargetDate reports the first day of the projection whose
\* expected price reaches the target, with that day's date and a probability
\* hits / paths between 0 and 1; when no day does, no date, no day and
\* probability 0; the date is missing exactly when the day is.
C16_FirstCrossingDay ==
    fnPc = "return" =>
        LET projection == generateDailyProjection(fnIn.s0, fnIn.mu, fnIn.sigma,
                                                  fnIn.days)
            reached == { d \in 1..fnIn.days : projection[d].price >= TARGET }
            prob == fnOut.probability
        IN  /\ (fnOut.targetDate = Null) <=> (fnOut.daysToTarget = Null)
            /\ reached = {} =>
                   fnOut.daysToTarget = Null /\ prob.num = 0
            /\ reached # {} =>
                   /\ fnOut.daysToTarget # Null
                   /\ fnOut.daysToTarget[1] \in reached
                   /\ \A d \in reached : fnOut.daysToTarget[1] <= d
                   /\ fnOut.targetDate = Some(projection[fnOut.daysToTarget[1]].date)
                   /\ prob.den = MaxPaths
            /\ 0 <= prob.num /\ prob.num <= prob.den

\* The target is first reached on day 3, and part of the paths hit it.
C16_Witness ==
    /\ fnPc = "return"
    /\ fnIn.days > 3
    /\ fnOut.daysToTarget = Some(3)
    /\ fnOut.probability.num > 0
    /\ fnOut.probability.num < fnOut.probability.den

\* No day of the projection has a price at the target or above, and
\* predictTargetDate reports no date, no day and probability 0.
NoTargetDate ==
    /\ \A d \in 1..fnIn.days :
           ProjectionEntry(fnIn.s0, fnIn.mu, fnIn.sigma, d).price < TARGET
    /\ fnOut.targetDate = Null
    /\ fnOut.daysToTarget = Null
    /\ fnOut.probability.num = 0

HORIZONS == << 1, 24, 168, 720 >>

\* Math.max(1, Math.round(h * 24))
Steps(h) == Max(1, h)

\* sigma * sigma, in 1/10000.
Square(sigma) == MulDiv(sigma, sigma, 10000)

\* (mu - 0.5 * sigma * sigma) * dt, with dt = h / steps.
DriftInc(mu, sigma, h) ==
    RoundDiv((mu - RoundDiv(Square(sigma), 2)) * h, 24 * Steps(h))

\* sigma * Math.sqrt(dt) * z
VolInc_nosigma(sigma, h, z) ==
    MathSqrt(RoundDiv(h * 10000, 24 * Steps(h))) * z

VolInc(sigma, h, z) ==
    RoundDiv(sigma * MathSqrt(RoundDiv(h * 10000, 24 * Steps(h))), 10000) * z

\* if (!hit && price >= target) hit = true
NextHit_unlatched(hit, price, target) == price >= target

NextHit(hit, price, target) == IF ~hit /\ price >= target THEN TRUE ELSE hit

\* Arguments: the horizons of the interface only without volatility, where
\* the draws make no difference; short horizons, of no time at all too, with it.
MCInputs ==
    { in \in [ s0 : StartPrices, mu : { 0, 200 }, sigma : { 0, 300, 10000 },
               horizons : { << 1 >>, << 0, 2 >>, HORIZONS },
               paths : 1..MaxPaths ] :
          in.horizons = HORIZONS => in.sigma = 0 }

MCInit ==
    /\ Mounted
    /\ fnIn \in MCInputs
    /\ fnOut = Null
    /\ fnPc = "call"

\* The variables of a path before its first step; top is the highest price
\* the path has had at a step.
NewPath(s0) == [ logS |-> MathLog(s0), hit |-> FALSE, t |-> 0, top |-> 0 ]

\* finalPrices / paths in whole dollars: 0 only when every final price is 0,
\* and 1 for a positive mean under a dollar, as in MathExp.
MeanPrice(finalPrices, paths) ==
    IF finalPrices = 0 THEN 0 ELSE Max(1, RoundDiv(finalPrices, paths))

\* The variables of a horizon before its first path.
NewHorizon == [ hitCount |-> 0, finalPrices |-> 0, p |-> 0 ]

MCCall ==
    /\ fnPc = "call"
    /\ fnOut' = [ forecasts |-> << >>, hitProb |-> << >>, k |-> 1 ]
                    @@ NewHorizon @@ NewPath(fnIn.s0)
    /\ fnPc' = "step"
    /\ UNCHANGED << fnIn, bfVars, fbVars, tkVars >>

\* One step of a path.
MCStep ==
    /\ fnPc = "step"
    /\ fnOut.t < Steps(fnIn.horizons[fnOut.k])
    /\ \E z \in Draws :
           LET h == fnIn.horizons[fnOut.k]
               logS == fnOut.logS + DriftInc(fnIn.mu, fnIn.sigma, h)
                                  + VolInc(fnIn.sigma, h, z)
               price == MathExp(logS)
           IN  fnOut' = [ fnOut EXCEPT
                            !.logS = logS,
                            !.hit = NextHit(@, price, TARGET),
                            !.t = @ + 1,
                            !.top = Max(@, price) ]
    /\ UNCHANGED << fnIn, fnPc, bfVars, fbVars, tkVars >>

\* The end of a path, and the start of the next one.
MCPathEnd ==
    /\ fnPc = "step"
    /\ fnOut.t = Steps(fnIn.horizons[fnOut.k])
    /\ LET sums == [ hitCount |-> fnOut.hitCount + (IF fnOut.hit THEN 1 ELSE 0),
                     finalPrices |-> fnOut.finalPrices + MathExp(fnOut.logS),
                     p |-> fnOut.p + 1 ]
       IN  IF sums.p < fnIn.paths
           THEN /\ fnOut' = sums @@ NewPath(fnIn.s0) @@ fnOut
                /\ fnPc' = "step"
           ELSE /\ fnOut' = sums @@ fnOut
                /\ fnPc' = "push"
    /\ UNCHANGED << fnIn, bfVars, fbVars, tkVars >>

\* The end of a horizon: its two entries, then the next horizon or the return.
MCPush ==
    /\ fnPc = "push"
    /\ LET h == fnIn.horizons[fnOut.k]
           lists == [ forecasts |-> Append(fnOut.forecasts,
                          [ h |-> h,
                            price |-> MeanPrice(fnOut.finalPrices, fnIn.paths) ]),
                      hitProb |-> Append(fnOut.hitProb,
                          [ h |-> h,
                            prob |-> Ratio(fnOut.hitCount, fnIn.paths) ]) ]
       IN  IF fnOut.k < Len(fnIn.horizons)
           THEN /\ fnOut' = lists @@ [ k |-> fnOut.k + 1 ] @@ NewHorizon
                                  @@ NewPath(fnIn.s0)
                /\ fnPc' = "step"
           ELSE /\ fnOut' = lists
                /\ fnPc' = "return"
    /\ UNCHANGED << fnIn, bfVars, fbVars, tkVars >>

MCNext == MCCall \/ MCStep \/ MCPathEnd \/ MCPush

SpecMC == MCInit /\ [][MCNext]_vars

C19_HitIffStepAtTarget ==
    [][ /\ fnPc' \in { "step", "push" } =>
               /\ fnOut'.hit <=> fnOut'.top >= TARGET
               /\ 0 <= fnOut'.hitCount
               /\ fnOut'.hitCount <= fnOut'.p
               /\ fnOut'.p <= fnIn.paths
        /\ fnPc = "step" /\ fnPc' = "step" /\ fnOut'.t = fnOut.t + 1 =>
               (fnOut.hit => fnOut'.hit)
        /\ fnPc = "step" /\ fnOut'.p = fnOut.p + 1 =>
               fnOut'.hitCount =
                   fnOut.hitCount + (IF fnOut.top >= TARGET THEN 1 ELSE 0)
        /\ fnPc' = "return" =>
               \A i \in DOMAIN fnOut'.hitProb :
                   /\ 0 <= fnOut'.hitProb[i].prob.num
                   /\ fnOut'.hitProb[i].prob.num <= fnOut'.hitProb[i].prob.den
                   /\ fnOut'.hitProb[i].prob.den = fnIn.paths
      ]_vars

\* A path that reached the target at its first step and is below it again.
C19_Witness ==
    /\ fnPc = "step"
    /\ fnOut.t = 2
    /\ fnOut.hit
    /\ MathExp(fnOut.logS) < TARGET

\* C20: when the starting price is at or above the target, the hit
\* probability of every horizon is 1.
C20_StartAtTargetAlwaysHit ==
    fnPc = "return" /\ fnIn.s0 >= TARGET =>
        \A i \in DOMAIN fnOut.hitProb :
            fnOut.hitProb[i].prob.num = fnOut.hitProb[i].prob.den

\* ============================================ estimateParams, runMonteCarlo
estimateParams_first(prices) ==
    LET logRets == SelectSeq(Returns(prices), IsFinite)
    IN  [ lastPrice |-> prices[1],
          mu |-> Value(mean(Values(logRets))),
          sigma |-> std(Values(logRets)) ]

estimateParams(prices) ==
    LET logRets == SelectSeq(Returns(prices), IsFinite)
    IN  [ lastPrice |-> prices[Len(prices)],
          mu |-> Value(mean(Values(logRets))),
          sigma |-> std(Values(logRets)) ]

\* Histories with enough prices for a forecast, all of them finite and
\* positive: around the target, and from one dollar to a million and back
\* every day.
Swings(n) == [ i \in 1..n |-> IF i % 2 = 1 THEN 1 ELSE 1000000 ]
RunInputs ==
    { Series(n, 95600, b, c) : n \in { MinPrices, MinPrices + 1 },
                               b \in { 95600, 99000 },
                               c \in { 99000, 101000 } }
    \cup { Swings(n) : n \in { MinPrices, MinPrices + 1 } }

\* The draws of a path: all one deviation below the mean, or all one above.
RunDraws == { -1, 1 }

RunInit ==
    /\ Mounted
    /\ fnIn \in RunInputs
    /\ fnOut = Null
    /\ fnPc = "call"

\* estimateParams(prices), and runMonteCarlo(lastPrice, mu, sigma, HORIZONS,
\* TARGET) up to its first path. zeros counts the paths of the horizon whose
\* final price is 0.
RunCall ==
    /\ fnPc = "call"
    /\ fnOut' = estimateParams(fnIn)
                    @@ [ forecasts |-> << >>, hitProb |-> << >>,
                         zeroPaths |-> << >>, k |-> 1, zeros |-> 0 ]
                    @@ NewHorizon
    /\ fnPc' = "path"
    /\ UNCHANGED << fnIn, bfVars, fbVars, tkVars >>

\* One whole path of runMonteCarlo, its draws all equal to z: the log price
\* after t steps is then t increments above Math.log(s0).
RunPath ==
    /\ fnPc = "path"
    /\ fnOut.p < MaxPaths
    /\ \E z \in RunDraws :
           LET h == HORIZONS[fnOut.k]
               inc == DriftInc(fnOut.mu, fnOut.sigma, h)
                          + VolInc(fnOut.sigma, h, z)
               start == MathLog(fnOut.lastPrice)
               hit == \E t \in 1..Steps(h) : MathExp(start + t * inc) >= TARGET
               final == MathExp(start + Steps(h) * inc)
           IN  fnOut' = [ fnOut EXCEPT
                            !.hitCount = IF hit THEN @ + 1 ELSE @,
                            !.finalPrices = @ + final,
                            !.zeros = IF final = 0 THEN @ + 1 ELSE @,
                            !.p = @ + 1 ]
    /\ UNCHANGED << fnIn, fnPc, bfVars, fbVars, tkVars >>

\* The end of a horizon: its two entries, then the next horizon or the return.
RunPush ==
    /\ fnPc = "path"
    /\ fnOut.p = MaxPaths
    /\ LET h == HORIZONS[fnOut.k]
           lists == [ forecasts |-> Append(fnOut.forecasts,
                          [ h |-> h,
                            price |-> MeanPrice(fnOut.finalPrices, MaxPaths) ]),
                      hitProb |-> Append(fnOut.hitProb,
                          [ h |-> h,
                            prob |-> Ratio(fnOut.hitCount, MaxPaths) ]),
                      zeroPaths |-> Append(fnOut.zeroPaths, fnOut.zeros) ]
       IN  IF fnOut.k < Len(HORIZONS)
           THEN /\ fnOut' = lists @@ [ k |-> fnOut.k + 1, zeros |-> 0 ]
                                  @@ NewHorizon @@ fnOut
                /\ fnPc' = "path"
           ELSE /\ fnOut' = lists @@ [ lastPrice |-> fnOut.lastPrice,
                                       mu |-> fnOut.mu, sigma |-> fnOut.sigma ]
                /\ fnPc' = "return"
    /\ UNCHANGED << fnIn, bfVars, fbVars, tkVars >>

RunNext == RunCall \/ RunPath \/ RunPush

SpecRun == RunInit /\ [][RunNext]_vars

\* The entries of forecasts and hitProb are those of the four horizons, in
\* order.
OnePerHorizon ==
    /\ Len(fnOut.forecasts) = 4
    /\ Len(fnOut.hitProb) = 4
    /\ \A i \in 1..4 :
           /\ fnOut.forecasts[i].h = << 1, 24, 168, 720 >>[i]
           /\ fnOut.hitProb[i].h = << 1, 24, 168, 720 >>[i]

NextVariance_unit(sigma2) == 1000 + sigma2

NextVariance(sigma2) == 1000 + RoundDiv(95 * sigma2, 100)

\* mean(squaredReturns), in 1/10^8.
MeanSquaredReturn(prices) ==
    LET returns == LogReturns(prices)
        squaredReturns == [ i \in DOMAIN returns |-> returns[i] * returns[i] ]
    IN  Value(mean(squaredReturns))

GarchInit ==
    /\ Mounted
    /\ fnIn \in SeriesInputs
    /\ fnOut = Null
    /\ fnPc = "call"

\* simpleGARCH up to its loop. variances keeps the values sigma2 takes.
GarchCall ==
    /\ fnPc = "call"
    /\ fnOut' = [ sigma2 |-> MeanSquaredReturn(fnIn), h |-> 1,
                  forecasts |-> << >>, variances |-> << >> ]
    /\ fnPc' = "loop"
    /\ UNCHANGED << fnIn, bfVars, fbVars, tkVars >>

\* for (let h = 1; h <= 5; h++)
GarchLoop ==
    /\ fnPc = "loop"
    /\ fnOut.h <= 5
    /\ LET sigma2 == NextVariance(fnOut.sigma2)
       IN  fnOut' = [ sigma2 |-> sigma2, h |-> fnOut.h + 1,
                      forecasts |-> Append(fnOut.forecasts, SqrtFine(sigma2)),
                      variances |-> Append(fnOut.variances, sigma2) ]
    /\ UNCHANGED << fnIn, fnPc, bfVars, fbVars, tkVars >>

GarchReturn ==
    /\ fnPc = "loop"
    /\ fnOut.h > 5
    /\ fnOut' = [ forecasts |-> fnOut.forecasts, variances |-> fnOut.variances ]
    /\ fnPc' = "return"
    /\ UNCHANGED << fnIn, bfVars, fbVars, tkVars >>

GarchNext == GarchCall \/ GarchLoop \/ GarchReturn

SpecGarch == GarchInit /\ [][GarchNext]_vars

\* The mean squared return followed by the five variances.
VarianceSequence == << MeanSquaredReturn(fnIn) >> \o fnOut.variances

\* C24: simpleGARCH returns five values, the square roots of the variances
\* that sigma2 <- 0.00001 + 0.95 * sigma2 gives from the mean squared return;
\* the variances never rise and never fall below 0.0002 from a seed of 0.0002
\* or more, and never fall and never exceed 0.0002 from a seed of 0.0002 or
\* less.
C24_GarchDecay ==
    fnPc = "return" =>
        /\ Len(fnOut.forecasts) = 5
        /\ Len(fnOut.variances) = 5
        /\ \A i \in 1..5 :
               /\ 100 * (VarianceSequence[i + 1] - 1000)
                      \in (95 * VarianceSequence[i] - 50)..(95 * VarianceSequence[i] + 50)
               /\ fnOut.forecasts[i] * fnOut.forecasts[i] <= VarianceSequence[i + 1]
               /\ VarianceSequence[i + 1]
                      < (fnOut.forecasts[i] + 1) * (fnOut.forecasts[i] + 1)
               /\ VarianceSequence[i] >= 20000 =>
                      /\ VarianceSequence[i + 1] <= VarianceSequence[i]
                      /\ VarianceSequence[i + 1] >= 20000
               /\ VarianceSequence[i] <= 20000 =>
                      /\ VarianceSequence[i + 1] >= VarianceSequence[i]
                      /\ VarianceSequence[i + 1] <= 20000

\* A history of 60 prices with a mean squared return above 0.0002: five
\* volatilities, each below the one before, the last variance still above
\* 0.0002.
C24_Witness ==
    /\ fnPc = "return"
    /\ Len(fnIn) = 60
    /\ MeanSquaredReturn(fnIn) > 20000
    /\ \A i \in 1..4 : fnOut.forecasts[i] > fnOut.forecasts[i + 1]
    /\ fnOut.variances[5] > 20000

\* ================================================================ simpleLSTM
\* Math.exp(-0.1 * age), in 1/10000, for the ages 0 to 29 of the lookback.
DecayTable == << 10000, 9048, 8187, 7408, 6703, 6065, 5488, 4966, 4493, 4066,
                 3679, 3329, 3012, 2725, 2466, 2231, 2019, 1827, 1653, 1496,
                 1353, 1225, 1108, 1003, 907, 821, 743, 672, 608, 550 >>

DecayWeight_rising(age) == DecayTable[30 - age]

DecayWeight(age) == DecayTable[age + 1]

\* Math.exp(x) for -1 < x < 1 in 1/10000, in 1/10000.
ExpFactor(x) ==
    IF x >= 0 THEN ExpSeries(x, 1, 10000)
    ELSE RoundDiv(100000000, ExpSeries(-x, 1, 10000))

\* weights.map((w) => w / totalWeight), in millionths; position i counts
\* from 1, the code's from 0.
NormalizedWeights ==
    LET lookback == 30
        weights == [ i \in 1..lookback |-> DecayWeight(lookback - i) ]
        totalWeight == SeqSum(weights)
    IN  [ i \in 1..lookback |-> MulDiv(1000000, weights[i], totalWeight) ]

\* simpleLSTM(prices). A price read before the start of the array is
\* undefined, and its return NaN.
simpleLSTM(prices) ==
    LET n == Len(prices)
        lastPrice == prices[n]
        lookback == 30
        window == SliceLast(prices, lookback + 1)
        starts == SubSeq(window, 1, Len(window) - 1)
        recentReturns ==
            [ i \in DOMAIN starts |->
                IF n - lookback + i \in DOMAIN prices
                THEN LogReturn(prices[n - lookback + i], starts[i])
                ELSE "NaN" ]
    IN  IF Len(recentReturns) < lookback
        THEN lastPrice
        ELSE LET predictedReturn ==
                     RoundDiv(SeqSum([ i \in 1..lookback |->
                                  recentReturns[i] * NormalizedWeights[i] ]),
                              1000000)
             IN  MulDiv(lastPrice, ExpFactor(predictedReturn), 10000)

\* Histories with one move from a to b after the first k prices, and the
\* histories of three levels.
OneMove(n, k, a, b) == [ i \in 1..n |-> IF i <= k THEN a ELSE b ]
LstmInputs ==
    { OneMove(n, k, a, b) : n \in { 2, 30, 31, 32, 60 },
                            k \in { 1, 28, 29, 30, 45, 59 },
                            a \in { 95000, 99000, 105000 },
                            b \in { 95000, 99000 } }
    \cup { Series(n, a, b, c) : n \in { 30, 31, 60 }, a \in { 95600, 104600 },
                                b \in { 99000, 101000 }, c \in { 99000, 110000 } }

LstmInit ==
    /\ Mounted
    /\ fnIn \in LstmInputs
    /\ fnOut = Null
    /\ fnPc = "call"

LstmCall ==
    /\ fnPc = "call"
    /\ fnOut' = simpleLSTM(fnIn)
    /\ fnPc' = "return"
    /\ UNCHANGED << fnIn, bfVars, fbVars, tkVars >>

LstmNext == LstmCall

SpecLstm == LstmInit /\ [][LstmNext]_vars

\* The weight, in millionths, of the return that ends age days before the
\* last price.
WeightOfAge(age) == MulDiv(1000000, DecayWeight(age), SeqSum(DecayTable))

\* The weighted average of the 30 daily log returns that end at the last
\* price, in 1/10000.
WeightedReturn(prices) ==
    LET n == Len(prices)
    IN  RoundDiv(SeqSum([ k \in 1..30 |->
                     (MathLog(prices[n - k + 1]) - MathLog(prices[n - k]))
                         * WeightOfAge(k - 1) ]),
                 1000000)

\* C25: with fewer than 31 prices simpleLSTM returns the last price; with
\* more it returns the last price times the exponential of the weighted
\* average of the last 30 consecutive daily log returns, whatever came before
\* them. The weights are proportional to exp(-0.1 * age), fall with age and
\* sum to 1 up to the rounding of the thirty quotients.
C25_LstmWeightedReturn ==
    fnPc = "return" =>
        /\ Len(fnIn) < 31 => fnOut = fnIn[Len(fnIn)]
        /\ Len(fnIn) >= 31 =>
               /\ fnOut = MulDiv(fnIn[Len(fnIn)],
                                 ExpFactor(WeightedReturn(fnIn)), 10000)
               /\ fnOut = simpleLSTM(SliceLast(fnIn, 31))
        /\ \A age \in 0..28 : WeightOfAge(age) > WeightOfAge(age + 1)
        /\ \A age \in 0..29 :
               Abs(WeightOfAge(age) * DecayTable[1]
                       - WeightOfAge(0) * DecayTable[age + 1]) <= 10000
        /\ Abs(SeqSum([ k \in 1..30 |-> WeightOfAge(k - 1) ]) - 1000000) <= 15

\* A history of 60 prices that fell from 105000 to 95000 on the last day
\* only: the result is a hundredth below the last price.
C25_Witness ==
    /\ fnPc = "return"
    /\ Len(fnIn) = 60
    /\ fnIn[59] = 105000 /\ fnIn[60] = 95000
    /\ fnOut < 95000
    /\ fnOut > 94000

====
